---- MODULE Spec2Model ----
(***************************************************************************)
(* Model of the Number value type of src/src/lib.rs: the nine variants,    *)
(* the constructors, parse, and the operators add, sub, mul, div and       *)
(* rem_assign.                                                             *)
(*                                                                         *)
(* Rust's i64/u64 and f32/f64 values do not fit TLC's 32-bit integers, so  *)
(* native values are carried exactly:                                      *)
(*   - a natural number is a little-endian sequence of limbs in base 2^15  *)
(*     without leading zero limbs (zero is << >>);                         *)
(*   - an integer is [neg, mag], mag a natural, zero never negative;       *)
(*   - a float is [neg, cls, m, e]: cls "nan", "inf" or "fin"; a finite    *)
(*     float denotes (-1)^neg * m * 2^e with m odd, or m zero and e = 0.   *)
(***************************************************************************)
EXTENDS Integers, Sequences, FiniteSets, TLC

(***************************************************************************)
(* Natural numbers of arbitrary size.                                      *)
(***************************************************************************)
\* a product of two limbs is still a TLC integer
Base == 2 ^ 15
LimbBits == CHOOSE k \in 1..30 : 2 ^ k = Base

Max(a, b) == IF a >= b THEN a ELSE b
Min(a, b) == IF a <= b THEN a ELSE b

Limb(a, i) == IF 1 <= i /\ i <= Len(a) THEN a[i] ELSE 0

\* a without its leading zero limbs
NNorm(a) ==
    IF a = << >> THEN a
    ELSE LET nz == {i \in 1..Len(a) : a[i] # 0}
         IN  IF nz = {} THEN << >>
             ELSE SubSeq(a, 1, CHOOSE i \in nz : \A j \in nz : j <= i)

\* a natural below Base^3
NFromInt(n) == NNorm(<<n % Base, (n \div Base) % Base, n \div (Base * Base)>>)

\* the natural whose limbs are the column sums g[i] <= 2 * Base - 2 with the
\* carries resolved: column i receives a carry when some lower column
\* overflows and every column between the two is full
NCarry(g) ==
    NNorm([i \in 1..Len(g) |->
              (g[i] + (IF \E j \in 1..(i - 1) :
                            /\ g[j] >= Base
                            /\ \A k \in (j + 1)..(i - 1) : g[k] = Base - 1
                       THEN 1 ELSE 0)) % Base])

NAdd(a, b) ==
    IF a = << >> THEN b
    ELSE IF b = << >> THEN a
    ELSE NCarry([i \in 1..(Max(Len(a), Len(b)) + 1) |-> Limb(a, i) + Limb(b, i)])

\* -1, 0 or 1 as a is below, equal to or above b
NCmp(a, b) ==
    IF Len(a) < Len(b) THEN -1
    ELSE IF Len(a) > Len(b) THEN 1
    ELSE LET d == {i \in 1..Len(a) : a[i] # b[i]}
         IN  IF d = {} THEN 0
             ELSE LET i == CHOOSE h \in d : \A j \in d : j <= h
                  IN  IF a[i] < b[i] THEN -1 ELSE 1

NLt(a, b) == NCmp(a, b) < 0
NLe(a, b) == NCmp(a, b) <= 0

\* a - b for a >= b: limb i lends when some lower limb falls short and no
\* limb between the two has anything to spare
NSub(a, b) ==
    IF b = << >> \/ a = << >> THEN a
    ELSE NNorm([i \in 1..Len(a) |->
                   (a[i] - Limb(b, i) + Base
                    - (IF \E j \in 1..(i - 1) :
                            /\ a[j] < Limb(b, j)
                            /\ \A k \in (j + 1)..(i - 1) : a[k] <= Limb(b, k)
                       THEN 1 ELSE 0)) % Base])

\* a * k for 0 <= k <= Base: in each column the low half of one product and
\* the high half of the product below it
NMulSmall(a, k) ==
    IF a = << >> \/ k = 0 THEN << >>
    ELSE NCarry([i \in 1..(Len(a) + 1) |->
                    ((Limb(a, i) * k) % Base) + ((Limb(a, i - 1) * k) \div Base)])

RECURSIVE NMulR(_, _, _)
NMulR(a, b, i) ==
    IF i > Len(b) THEN << >>
    ELSE NAdd([j \in 1..(i - 1) |-> 0] \o NMulSmall(a, b[i]), NMulR(a, b, i + 1))

NMul(a, b) == IF a = << >> \/ b = << >> THEN << >> ELSE NNorm(NMulR(a, b, 1))

\* a * 2^(w * LimbBits + r), r below LimbBits
NShlAt(a, w, r) ==
    NNorm([i \in 1..(Len(a) + w + 1) |->
              ((Limb(a, i - w) % (2 ^ (LimbBits - r))) * (2 ^ r))
              + (Limb(a, i - w - 1) \div (2 ^ (LimbBits - r)))])

\* a * 2^k
NShl(a, k) ==
    IF a = << >> \/ k = 0 THEN a ELSE NShlAt(a, k \div LimbBits, k % LimbBits)

\* floor(a / 2^(w * LimbBits + r)), r below LimbBits
NShrAt(a, w, r) ==
    IF w >= Len(a) THEN << >>
    ELSE NNorm([i \in 1..(Len(a) - w) |->
                   (a[i + w] \div (2 ^ r))
                   + ((Limb(a, i + w + 1) % (2 ^ r)) * (2 ^ (LimbBits - r)))])

\* floor(a / 2^k)
NShr(a, k) ==
    IF a = << >> \/ k = 0 THEN a ELSE NShrAt(a, k \div LimbBits, k % LimbBits)

NPow2(k) == NShl(<<1>>, k)

\* number of binary digits of a; 0 for zero
NBitLen(a) ==
    IF a = << >> THEN 0
    ELSE LimbBits * (Len(a) - 1)
         + (CHOOSE k \in 1..LimbBits : 2 ^ (k - 1) <= a[Len(a)] /\ a[Len(a)] < 2 ^ k)

NIsOdd(a) == a # << >> /\ a[1] % 2 = 1

\* the number of trailing zero bits of a nonzero a
NTrailingZeros(a) ==
    LET i == CHOOSE j \in 1..Len(a) : a[j] # 0 /\ \A h \in 1..(j - 1) : a[h] = 0
    IN  LimbBits * (i - 1)
        + (CHOOSE k \in 0..(LimbBits - 1) :
               a[i] % (2 ^ k) = 0 /\ a[i] % (2 ^ (k + 1)) # 0)

\* binary digit k of a, the lowest being digit 0
NBit(a, k) == (Limb(a, (k \div LimbBits) + 1) \div (2 ^ (k % LimbBits))) % 2

\* a mod 2^k
NLowBits(a, k) ==
    NNorm([i \in 1..Min(Len(a), (k + LimbBits - 1) \div LimbBits) |->
              IF i * LimbBits <= k THEN a[i]
              ELSE a[i] % (2 ^ (k - (i - 1) * LimbBits))])

\* floor(a / 2^k) rounded to the nearest natural, a tie to the even one
NRoundTie(lo, half, sticky) ==
    IF half /\ (sticky \/ NIsOdd(lo)) THEN NAdd(lo, <<1>>) ELSE lo
NRoundShr(a, k) ==
    NRoundTie(NShr(a, k), NBit(a, k - 1) = 1, NTrailingZeros(a) < k - 1)

\* floor(r / b) for r < b * Base, the top limb of b at least Base / 2: the
\* estimate from the top limbs is at most two too large
NDigit(r, b) ==
    LET est == Min((Limb(r, Len(b) + 1) * Base + Limb(r, Len(b))) \div b[Len(b)],
                   Base - 1)
        fits == {d \in {0, est - 2, est - 1, est} : d >= 0 /\ NLe(NMulSmall(b, d), r)}
    IN  CHOOSE d \in fits : \A c \in fits : c <= d

\* one step of the long division: the next lower limb is brought down under
\* the remainder so far and yields the digit d of the quotient
NDivEmit(q, r0, b, d) == [r |-> NSub(r0, NMulSmall(b, d)), q |-> <<d>> \o q]
NDivStep(prev, limb, b) ==
    IF prev.r = << >> /\ limb = 0 THEN [r |-> << >>, q |-> <<0>> \o prev.q]
    ELSE NDivEmit(prev.q, <<limb>> \o prev.r, b, NDigit(<<limb>> \o prev.r, b))

\* long division of the limbs i..Len(a) of a by b: [r, q], q not yet
\* normalised
RECURSIVE NDivModR(_, _, _)
NDivModR(a, b, i) ==
    IF i > Len(a) THEN [r |-> << >>, q |-> << >>]
    ELSE NDivStep(NDivModR(a, b, i + 1), a[i], b)

\* quotient and remainder of a by b > 0 : both are shifted to bring the top
\* limb of b to at least Base / 2, and the remainder is shifted back
NDivOut(d, sh) == [r |-> NShr(d.r, sh), q |-> NNorm(d.q)]
NDivShifted(a, b, sh) == NDivOut(NDivModR(NShl(a, sh), NShl(b, sh), 1), sh)
NDivMod(a, b) ==
    IF NLt(a, b) THEN [r |-> a, q |-> << >>]
    ELSE NDivShifted(a, b, (LimbBits - (NBitLen(b) % LimbBits)) % LimbBits)

(***************************************************************************)
(* Integers of arbitrary size: [neg, mag].                                 *)
(***************************************************************************)
ZMk(neg, mag) == [neg |-> neg /\ mag # << >>, mag |-> mag]
ZNat(mag) == ZMk(FALSE, mag)
ZInt(n) == IF n < 0 THEN ZMk(TRUE, NFromInt(0 - n)) ELSE ZMk(FALSE, NFromInt(n))
ZNeg(a) == ZMk(~a.neg, a.mag)
ZIsZero(a) == a.mag = << >>

ZAdd(a, b) ==
    IF a.neg = b.neg THEN ZMk(a.neg, NAdd(a.mag, b.mag))
    ELSE IF NLe(b.mag, a.mag) THEN ZMk(a.neg, NSub(a.mag, b.mag))
    ELSE ZMk(b.neg, NSub(b.mag, a.mag))

ZSub(a, b) == ZAdd(a, ZNeg(b))
ZMul(a, b) == ZMk(a.neg # b.neg, NMul(a.mag, b.mag))

ZCmp(a, b) ==
    IF a.neg /\ ~b.neg THEN -1
    ELSE IF ~a.neg /\ b.neg THEN 1
    ELSE IF a.neg THEN NCmp(b.mag, a.mag)
    ELSE NCmp(a.mag, b.mag)

ZLe(a, b) == ZCmp(a, b) <= 0
ZLt(a, b) == ZCmp(a, b) < 0

\* quotient truncated towards zero and remainder with the sign of the dividend
ZQuot(a, b) == ZMk(a.neg # b.neg, NDivMod(a.mag, b.mag).q)
ZRem(a, b) == ZMk(a.neg, NDivMod(a.mag, b.mag).r)

(***************************************************************************)
(* IEEE-754 binary floating point, round to nearest, ties to even.         *)
(* A format is its precision p, the exponent qmin of its smallest          *)
(* subnormal step and the exponent emax at which it overflows.             *)
(***************************************************************************)
F64_MANTISSA_DIGITS == 53
F64_MAX_EXP == 1024
F64_MIN_STEP_EXP == 0 - 1074
F32_MANTISSA_DIGITS == 24
F32_MAX_EXP == 128
F32_MIN_STEP_EXP == 0 - 149

Binary64 == [p |-> F64_MANTISSA_DIGITS, qmin |-> F64_MIN_STEP_EXP,
             emax |-> F64_MAX_EXP]
Binary32 == [p |-> F32_MANTISSA_DIGITS, qmin |-> F32_MIN_STEP_EXP,
             emax |-> F32_MAX_EXP]

FNaN == [neg |-> FALSE, cls |-> "nan", m |-> << >>, e |-> 0]
FInf(neg) == [neg |-> neg, cls |-> "inf", m |-> << >>, e |-> 0]
FZero(neg) == [neg |-> neg, cls |-> "fin", m |-> << >>, e |-> 0]

\* the finite float (-1)^neg * m * 2^e, m made odd
FOdd(neg, m, e, z) == [neg |-> neg, cls |-> "fin", m |-> NShr(m, z), e |-> e + z]
FFin(neg, m, e) ==
    IF m = << >> THEN FZero(neg) ELSE FOdd(neg, m, e, NTrailingZeros(m))

\* (-1)^neg * m * 2^e, which has at most fmt.p digits above 2^fmt.qmin
FPack(neg, m, e, fmt) ==
    IF e + NBitLen(m) > fmt.emax THEN FInf(neg) ELSE FFin(neg, m, e)

\* (-1)^neg * m * 2^e rounded into the format fmt: q is the exponent of the
\* last digit the format keeps
FRoundAt(neg, m, e, fmt, q) ==
    IF q <= e THEN FPack(neg, m, e, fmt)
    ELSE FPack(neg, NRoundShr(m, q - e), q, fmt)
FRound(neg, m, e, fmt) ==
    IF m = << >> THEN FZero(neg)
    ELSE FRoundAt(neg, m, e, fmt, Max(e + NBitLen(m) - fmt.p, fmt.qmin))

\* (-1)^neg * (num / den) * 2^e rounded into fmt, for den > 0: the quotient
\* is taken to two digits more than the precision, the last one sticky
FRoundSticky(neg, d, e, fmt) ==
    FRound(neg, NAdd(NShl(d.q, 1), IF d.r = << >> THEN << >> ELSE <<1>>), e, fmt)
FRoundRatioAt(neg, num, den, e, fmt, k) ==
    FRoundSticky(neg, NDivMod(NShl(num, k), den), e - k - 1, fmt)
FRoundRatio(neg, num, den, e, fmt) ==
    IF num = << >> THEN FZero(neg)
    ELSE FRoundRatioAt(neg, num, den, e, fmt,
                       Max(0, fmt.p + 2 + NBitLen(den) - NBitLen(num)))

f_is_nan(x) == x.cls = "nan"
f_is_infinite(x) == x.cls = "inf"
f_is_finite(x) == x.cls = "fin"
FIsZero(x) == x.cls = "fin" /\ x.m = << >>

FNegate(x) == IF x.cls = "nan" THEN x ELSE [x EXCEPT !.neg = ~x.neg]
f_abs(x) == IF x.cls = "nan" THEN x ELSE [x EXCEPT !.neg = FALSE]

\* the integer m * 2^(e - e0) of a finite float, for e0 <= e
FScaled(x, e0) == ZMk(x.neg, NShl(x.m, x.e - e0))

\* the sum s * 2^e0 of two finite floats; an exact zero is negative only
\* when both terms are
FAddSum(s, e0, negzero) ==
    IF ZIsZero(s) THEN FZero(negzero) ELSE FRound(s.neg, s.mag, e0, Binary64)
FAddAt(x, y, e0) ==
    FAddSum(ZAdd(FScaled(x, e0), FScaled(y, e0)), e0, x.neg /\ y.neg)
FAdd(x, y) ==
    IF x.cls = "nan" \/ y.cls = "nan" THEN FNaN
    ELSE IF x.cls = "inf" /\ y.cls = "inf"
         THEN (IF x.neg = y.neg THEN x ELSE FNaN)
    ELSE IF x.cls = "inf" THEN x
    ELSE IF y.cls = "inf" THEN y
    ELSE FAddAt(x, y, Min(x.e, y.e))

FSub(x, y) == FAdd(x, FNegate(y))

FMul(x, y) ==
    IF x.cls = "nan" \/ y.cls = "nan" THEN FNaN
    ELSE IF x.cls = "inf" \/ y.cls = "inf"
         THEN (IF FIsZero(x) \/ FIsZero(y) THEN FNaN ELSE FInf(x.neg # y.neg))
    ELSE FRound(x.neg # y.neg, NMul(x.m, y.m), x.e + y.e, Binary64)

FDiv(x, y) ==
    IF x.cls = "nan" \/ y.cls = "nan" THEN FNaN
    ELSE IF x.cls = "inf"
         THEN (IF y.cls = "inf" THEN FNaN ELSE FInf(x.neg # y.neg))
    ELSE IF y.cls = "inf" THEN FZero(x.neg # y.neg)
    ELSE IF FIsZero(y)
         THEN (IF FIsZero(x) THEN FNaN ELSE FInf(x.neg # y.neg))
    ELSE FRoundRatio(x.neg # y.neg, x.m, y.m, x.e - y.e, Binary64)

\* the remainder of x by y with the sign of x (fmod); it is exact
FRemAt(x, y, e0) ==
    FFin(x.neg, NDivMod(NShl(x.m, x.e - e0), NShl(y.m, y.e - e0)).r, e0)
FRem(x, y) ==
    IF x.cls = "nan" \/ y.cls = "nan" THEN FNaN
    ELSE IF x.cls = "inf" \/ FIsZero(y) THEN FNaN
    ELSE IF y.cls = "inf" \/ FIsZero(x) THEN x
    ELSE FRemAt(x, y, Min(x.e, y.e))

\* the comparisons == and < of floats: false on NaN, the zeros are equal
FEq(x, y) ==
    /\ x.cls # "nan" /\ y.cls # "nan"
    /\ \/ FIsZero(x) /\ FIsZero(y)
       \/ x = y

FLtAt(x, y, e0) == ZLt(FScaled(x, e0), FScaled(y, e0))
FLt(x, y) ==
    /\ x.cls # "nan" /\ y.cls # "nan"
    /\ IF x.cls = "inf" THEN x.neg /\ y # x
       ELSE IF y.cls = "inf" THEN ~y.neg
       ELSE FLtAt(x, y, Min(x.e, y.e))

\* the casts between the native types
i64_as_f64(z) == FRound(z.neg, z.mag, 0, Binary64)
f64_as_f32(x) == IF x.cls = "fin" THEN FRound(x.neg, x.m, x.e, Binary32) ELSE x
\* every f32 value is an f64 value: the widening cast changes nothing
f32_as_f64(x) == x

\* f64::EPSILON, 2^-52
F64_EPSILON == [neg |-> FALSE, cls |-> "fin", m |-> <<1>>, e |-> 1 - F64_MANTISSA_DIGITS]

(***************************************************************************)
(* The native integer types and their operators.                           *)
(***************************************************************************)
I8_BITS == 8
I16_BITS == 16
I32_BITS == 32
I64_BITS == 64

\* the limits of the signed types, written in limbs: 2^15 is <<0, 1>>,
\* 2^31 is <<0, 0, 2>> and 2^63 is <<0, 0, 0, 0, 8>>
i8_MIN == ZMk(TRUE, <<128>>)
i8_MAX == ZMk(FALSE, <<127>>)
i16_MIN == ZMk(TRUE, <<0, 1>>)
i16_MAX == ZMk(FALSE, <<32767>>)
i32_MIN == ZMk(TRUE, <<0, 0, 2>>)
i32_MAX == ZMk(FALSE, <<32767, 32767, 1>>)
i64_MIN == ZMk(TRUE, <<0, 0, 0, 0, 8>>)
i64_MAX == ZMk(FALSE, <<32767, 32767, 32767, 32767, 7>>)

\* the signed integer whose two's complement pattern of the given width is u
TwosComplement(u, bits) ==
    IF NBit(u, bits - 1) = 0 THEN ZNat(u)
    ELSE ZMk(TRUE, NSub(NPow2(bits), u))

\* z as a signed integer of the given width: the low bits, two's complement
as_signed(z, bits) ==
    TwosComplement(IF z.neg
                   THEN NLowBits(NSub(NPow2(bits), NLowBits(z.mag, bits)), bits)
                   ELSE NLowBits(z.mag, bits),
                   bits)

\* the outcome of an operation that aborts the program
Panic == [tag |-> "Panic"]

Some(v) == [some |-> TRUE, val |-> v]
None == [some |-> FALSE]

\* Some(r) when r is a value of i64
checked_i64(r) == IF ZLe(i64_MIN, r) /\ ZLe(r, i64_MAX) THEN Some(r) ELSE None

\* a faulty checked_add that wraps around modulo 2^64 instead of reporting the
\* overflow; OverflowPromotes must not survive it
wrapping_add(a, b) == Some(as_signed(ZAdd(a, b), I64_BITS))

checked_add(a, b) == checked_i64(ZAdd(a, b))
checked_sub(a, b) == checked_i64(ZSub(a, b))
checked_mul(a, b) == checked_i64(ZMul(a, b))

\* a + b on i64 operands widened from a type of at most 32 bits: the sum is
\* always a value of i64
i64_add(a, b) == ZAdd(a, b)

\* a % b and a / b on i64: both abort on a zero divisor and on i64::MIN by -1
i64_rem(a, b) ==
    IF ZIsZero(b) \/ (a = i64_MIN /\ b = ZMk(TRUE, <<1>>)) THEN Panic
    ELSE ZRem(a, b)
i64_div(a, b) ==
    IF ZIsZero(b) \/ (a = i64_MIN /\ b = ZMk(TRUE, <<1>>)) THEN Panic
    ELSE ZQuot(a, b)

(***************************************************************************)
(* enum Number and its inherent methods.                                   *)
(***************************************************************************)
PositiveInfinity == [tag |-> "PositiveInfinity"]
NegativeInfinity == [tag |-> "NegativeInfinity"]
NaN == [tag |-> "NaN"]
Integer64(v) == [tag |-> "Integer64", v |-> v]
Integer32(v) == [tag |-> "Integer32", v |-> v]
Integer16(v) == [tag |-> "Integer16", v |-> v]
Integer8(v) == [tag |-> "Integer8", v |-> v]
Float64(v) == [tag |-> "Float64", v |-> v]
Float32(v) == [tag |-> "Float32", v |-> v]

IntegerTags == {"Integer8", "Integer16", "Integer32", "Integer64"}
FloatTags == {"Float32", "Float64"}
SpecialTags == {"PositiveInfinity", "NegativeInfinity", "NaN"}
NumberTags == IntegerTags \cup FloatTags \cup SpecialTags

IsInteger(x) == x.tag \in IntegerTags
IsFloat(x) == x.tag \in FloatTags
IsNumber(x) == x.tag \in NumberTags

\* a faulty from_int whose upper limits are exclusive; FromIntNarrowest must
\* not survive it
from_int_exclusive(value) ==
    IF ZLe(i8_MIN, value) /\ ZLt(value, i8_MAX)
    THEN Integer8(as_signed(value, I8_BITS))
    ELSE IF ZLe(i16_MIN, value) /\ ZLt(value, i16_MAX)
    THEN Integer16(as_signed(value, I16_BITS))
    ELSE IF ZLe(i32_MIN, value) /\ ZLt(value, i32_MAX)
    THEN Integer32(as_signed(value, I32_BITS))
    ELSE Integer64(value)

from_int(value) ==
    IF ZLe(i8_MIN, value) /\ ZLe(value, i8_MAX)
    THEN Integer8(as_signed(value, I8_BITS))
    ELSE IF ZLe(i16_MIN, value) /\ ZLe(value, i16_MAX)
    THEN Integer16(as_signed(value, I16_BITS))
    ELSE IF ZLe(i32_MIN, value) /\ ZLe(value, i32_MAX)
    THEN Integer32(as_signed(value, I32_BITS))
    ELSE Integer64(value)

\* the choice between f32 and f64 once `value as f32` is known
from_float_as(value, as_f32) ==
    IF FLt(f_abs(FSub(f32_as_f64(as_f32), value)), F64_EPSILON)
       /\ f_is_finite(value)
    THEN Float32(as_f32)
    ELSE Float64(value)
from_float(value) == from_float_as(value, f64_as_f32(value))

to_f64(x) ==
    CASE x.tag = "PositiveInfinity" -> FInf(FALSE)
      [] x.tag = "NegativeInfinity" -> FInf(TRUE)
      [] x.tag = "NaN" -> FNaN
      [] x.tag \in IntegerTags -> i64_as_f64(x.v)
      [] x.tag = "Float64" -> x.v
      [] x.tag = "Float32" -> f32_as_f64(x.v)

\* a faulty is_nan that overlooks a NaN held as a float payload; NaNDominates
\* must not survive it
is_nan_variant(x) == x.tag = "NaN"

is_nan(x) ==
    CASE x.tag = "NaN" -> TRUE
      [] x.tag \in FloatTags -> f_is_nan(x.v)
      [] OTHER -> FALSE

is_infinite(x) ==
    CASE x.tag \in {"PositiveInfinity", "NegativeInfinity"} -> TRUE
      [] x.tag \in FloatTags -> f_is_infinite(x.v)
      [] OTHER -> FALSE

is_finite(x) == ~is_nan(x) /\ ~is_infinite(x)

from_f64(value) ==
    IF f_is_nan(value) THEN NaN
    ELSE IF FEq(value, FInf(FALSE)) THEN PositiveInfinity
    ELSE IF FEq(value, FInf(TRUE)) THEN NegativeInfinity
    ELSE Float64(value)

\* the payload of an integer variant widened to i64 (`v as i64`)
int_val(x) == x.v

(***************************************************************************)
(* The arithmetic operators.  Each returns the resulting Number, or Panic  *)
(* when the code aborts.                                                   *)
(***************************************************************************)
BothTag(x, y, t) == x.tag = t /\ y.tag = t

\* `if let Some(result) = ... { from_int(result) } else { Float64(float) }`
some_or_float(result, float) ==
    IF result.some THEN from_int(result.val) ELSE Float64(float)

\* the arm of two Integer64 in add, which wraps the sum as it is
some_i64_or_float(result, float) ==
    IF result.some THEN Integer64(result.val) ELSE Float64(float)

add(self, rhs) ==
    IF is_nan(self) \/ is_nan(rhs) THEN NaN
    ELSE IF self.tag = "PositiveInfinity" /\ rhs.tag = "NegativeInfinity" THEN NaN
    ELSE IF self.tag = "NegativeInfinity" /\ rhs.tag = "PositiveInfinity" THEN NaN
    ELSE IF self.tag = "PositiveInfinity" \/ rhs.tag = "PositiveInfinity"
         THEN PositiveInfinity
    ELSE IF self.tag = "NegativeInfinity" \/ rhs.tag = "NegativeInfinity"
         THEN NegativeInfinity
    ELSE IF BothTag(self, rhs, "Integer8") \/ BothTag(self, rhs, "Integer16")
            \/ BothTag(self, rhs, "Integer32")
         THEN from_int(i64_add(int_val(self), int_val(rhs)))
    ELSE IF BothTag(self, rhs, "Integer64")
         THEN some_i64_or_float(checked_add(self.v, rhs.v),
                                FAdd(i64_as_f64(self.v), i64_as_f64(rhs.v)))
    ELSE IF IsInteger(self) /\ IsInteger(rhs)
         THEN some_or_float(checked_add(int_val(self), int_val(rhs)),
                            FAdd(i64_as_f64(int_val(self)),
                                 i64_as_f64(int_val(rhs))))
    ELSE from_float(FAdd(to_f64(self), to_f64(rhs)))

sub(self, rhs) ==
    IF is_nan(self) \/ is_nan(rhs) THEN NaN
    ELSE IF BothTag(self, rhs, "PositiveInfinity") THEN NaN
    ELSE IF BothTag(self, rhs, "NegativeInfinity") THEN NaN
    ELSE IF self.tag = "PositiveInfinity" THEN PositiveInfinity
    ELSE IF self.tag = "NegativeInfinity" THEN NegativeInfinity
    ELSE IF rhs.tag = "PositiveInfinity" THEN NegativeInfinity
    ELSE IF rhs.tag = "NegativeInfinity" THEN PositiveInfinity
    ELSE IF IsInteger(self) /\ IsInteger(rhs)
         THEN some_or_float(checked_sub(int_val(self), int_val(rhs)),
                            FSub(i64_as_f64(int_val(self)),
                                 i64_as_f64(int_val(rhs))))
    ELSE from_float(FSub(to_f64(self), to_f64(rhs)))

\* mul once self.to_f64() and rhs.to_f64() are taken
mul_f64(self, rhs, self_f64, rhs_f64) ==
    IF (is_infinite(self) /\ FEq(rhs_f64, FZero(FALSE)))
       \/ (is_infinite(rhs) /\ FEq(self_f64, FZero(FALSE)))
    THEN NaN
    ELSE IF is_infinite(self) \/ is_infinite(rhs)
         THEN from_f64(FMul(self_f64, rhs_f64))
    ELSE IF IsInteger(self) /\ IsInteger(rhs)
         THEN some_or_float(checked_mul(int_val(self), int_val(rhs)),
                            FMul(i64_as_f64(int_val(self)),
                                 i64_as_f64(int_val(rhs))))
    ELSE from_float(FMul(self_f64, rhs_f64))

mul(self, rhs) ==
    IF is_nan(self) \/ is_nan(rhs) THEN NaN
    ELSE mul_f64(self, rhs, to_f64(self), to_f64(rhs))

\* the arm of two integers in div: `a_val % b_val` and `a_val / b_val` abort
\* together
div_int(a_val, b_val) ==
    IF ~ZIsZero(b_val) /\ i64_rem(a_val, b_val) = Panic THEN Panic
    ELSE IF ~ZIsZero(b_val) /\ ZIsZero(i64_rem(a_val, b_val))
         THEN from_int(i64_div(a_val, b_val))
    ELSE from_float(FDiv(i64_as_f64(a_val), i64_as_f64(b_val)))

\* div once self.to_f64() and rhs.to_f64() are taken
div_f64(self, rhs, self_f64, rhs_f64) ==
    IF FEq(rhs_f64, FZero(FALSE)) /\ FEq(self_f64, FZero(FALSE)) THEN NaN
    ELSE IF is_infinite(self) /\ is_infinite(rhs) THEN NaN
    ELSE IF IsInteger(self) /\ IsInteger(rhs)
         THEN div_int(int_val(self), int_val(rhs))
    ELSE from_float(FDiv(self_f64, rhs_f64))

div(self, rhs) ==
    IF is_nan(self) \/ is_nan(rhs) THEN NaN
    ELSE div_f64(self, rhs, to_f64(self), to_f64(rhs))

\* the arms of two integers of one width in rem_assign
rem_int(b, r) ==
    IF ZIsZero(b) THEN NaN ELSE IF r = Panic THEN Panic ELSE from_int(r)

\* the last arm of rem_assign
rem_f64(a_f, b_f) ==
    IF FEq(b_f, FZero(FALSE)) THEN NaN ELSE from_float(FRem(a_f, b_f))

\* the value `self` holds after `self %= rhs`
rem_assign(self, rhs) ==
    IF is_nan(self) \/ is_nan(rhs) THEN NaN
    ELSE IF is_infinite(self) \/ is_infinite(rhs) THEN NaN
    ELSE IF BothTag(self, rhs, "Integer8") \/ BothTag(self, rhs, "Integer16")
            \/ BothTag(self, rhs, "Integer32") \/ BothTag(self, rhs, "Integer64")
         THEN rem_int(int_val(rhs), i64_rem(int_val(self), int_val(rhs)))
    ELSE rem_f64(to_f64(self), to_f64(rhs))

(***************************************************************************)
(* Text: a string is a sequence of one-character strings.                  *)
(***************************************************************************)
Whitespace == {" ", "\t", "\n"}
Digits == <<"0", "1", "2", "3", "4", "5", "6", "7", "8", "9">>
UpperLetters == <<"A", "B", "C", "D", "E", "F", "G", "H", "I", "J", "K", "L", "M",
                  "N", "O", "P", "Q", "R", "S", "T", "U", "V", "W", "X", "Y", "Z">>
LowerLetters == <<"a", "b", "c", "d", "e", "f", "g", "h", "i", "j", "k", "l", "m",
                  "n", "o", "p", "q", "r", "s", "t", "u", "v", "w", "x", "y", "z">>

IsDigit(c) == \E i \in 1..Len(Digits) : Digits[i] = c
DigitVal(c) == (CHOOSE i \in 1..Len(Digits) : Digits[i] = c) - 1

lower_char(c) ==
    IF \E i \in 1..Len(UpperLetters) : UpperLetters[i] = c
    THEN LowerLetters[CHOOSE i \in 1..Len(UpperLetters) : UpperLetters[i] = c]
    ELSE c

to_lowercase(s) == [i \in 1..Len(s) |-> lower_char(s[i])]

RECURSIVE trim_start(_)
trim_start(s) ==
    IF s # << >> /\ Head(s) \in Whitespace THEN trim_start(Tail(s)) ELSE s

RECURSIVE trim_end(_)
trim_end(s) ==
    IF s # << >> /\ s[Len(s)] \in Whitespace
    THEN trim_end(SubSeq(s, 1, Len(s) - 1))
    ELSE s

trim(s) == trim_end(trim_start(s))

\* the first index from i on that holds no digit
RECURSIVE DigitsEnd(_, _)
DigitsEnd(s, i) ==
    IF i <= Len(s) /\ IsDigit(s[i]) THEN DigitsEnd(s, i + 1) ELSE i

AllDigits(s) == s # << >> /\ DigitsEnd(s, 1) = Len(s) + 1

\* 10^k, by squaring
RECURSIVE NPow10(_)
NPow10(k) ==
    IF k = 0 THEN <<1>>
    ELSE IF k % 2 = 0 THEN NMul(NPow10(k \div 2), NPow10(k \div 2))
    ELSE NMulSmall(NPow10(k - 1), 10)

\* the natural number written by the digits s[i..j], by halves
RECURSIVE NFromDigits(_, _, _)
NFromDigits(s, i, j) ==
    IF j < i THEN << >>
    ELSE IF j = i THEN NFromInt(DigitVal(s[i]))
    ELSE NAdd(NMul(NFromDigits(s, i, (i + j) \div 2), NPow10(j - (i + j) \div 2)),
              NFromDigits(s, (i + j) \div 2 + 1, j))

\* the same as a small integer, for exponents
RECURSIVE IntFromDigits(_, _)
IntFromDigits(s, j) ==
    IF j = 0 THEN 0 ELSE IntFromDigits(s, j - 1) * 10 + DigitVal(s[j])

HasSign(s) == s # << >> /\ s[1] \in {"+", "-"}
IsMinus(s) == s # << >> /\ s[1] = "-"
Unsigned(s) == IF HasSign(s) THEN Tail(s) ELSE s

\* str::parse::<i64>: an optional sign and at least one digit, nothing else,
\* the value within the range of i64
parse_i64_digits(t, neg) ==
    IF AllDigits(t) THEN checked_i64(ZMk(neg, NFromDigits(t, 1, Len(t)))) ELSE None
parse_i64(s) == parse_i64_digits(Unsigned(s), IsMinus(s))

\* the f64 nearest to (-1)^neg * d * 10^exp10
decimal_to_f64(neg, d, exp10) ==
    IF exp10 >= 0 THEN FRound(neg, NMul(d, NPow10(exp10)), 0, Binary64)
    ELSE FRoundRatio(neg, d, NPow10(0 - exp10), 0, Binary64)

\* the f64 nearest to the decimal digits scaled by 10^exp10
digits_to_f64(neg, digits, exp10) ==
    decimal_to_f64(neg, NFromDigits(digits, 1, Len(digits)), exp10)

\* the exponent x, after the letter e, of the decimal digits with nfrac of
\* them behind the point
parse_f64_exp(neg, digits, nfrac, x) ==
    IF ~AllDigits(Unsigned(x)) THEN None
    ELSE Some(digits_to_f64(neg, digits,
                            (IF IsMinus(x) THEN -1 ELSE 1)
                            * IntFromDigits(Unsigned(x), Len(Unsigned(x)))
                            - nfrac))

\* the digits t[1..i1-1] before and t[i1+1..i2-1] behind the point, i2 = i1
\* when there is no point; one digit at least is required
parse_f64_digits(t, neg, i1, i2) ==
    IF i1 = 1 /\ i2 <= i1 + 1 THEN None
    ELSE IF i2 <= Len(t) /\ t[i2] \notin {"e", "E"} THEN None
    ELSE parse_f64_exp(neg, SubSeq(t, 1, i1 - 1) \o SubSeq(t, i1 + 1, i2 - 1),
                       Max(i2 - i1 - 1, 0),
                       IF i2 <= Len(t) THEN SubSeq(t, i2 + 1, Len(t)) ELSE <<"0">>)

parse_f64_point(t, neg, i1) ==
    parse_f64_digits(t, neg, i1,
                     IF i1 <= Len(t) /\ t[i1] = "." THEN DigitsEnd(t, i1 + 1) ELSE i1)

\* str::parse::<f64>: an optional sign, then digits with an optional point
\* and an optional exponent, or one of inf, infinity and nan in any case;
\* the decimal value is rounded to the nearest f64
parse_f64_unsigned(t, neg) ==
    IF to_lowercase(t) \in {<<"i", "n", "f">>,
                            <<"i", "n", "f", "i", "n", "i", "t", "y">>}
    THEN Some(FInf(neg))
    ELSE IF to_lowercase(t) = <<"n", "a", "n">> THEN Some(FNaN)
    ELSE parse_f64_point(t, neg, DigitsEnd(t, 1))
parse_f64(s) == parse_f64_unsigned(Unsigned(s), IsMinus(s))

\* Result<Number, String>
Ok(v) == [tag |-> "Ok", v |-> v]
Err(s) == [tag |-> "Err", v |-> s]

parse_float(s, float) == IF float.some THEN Ok(from_float(float.val)) ELSE Err(s)
parse_int(s, int) ==
    IF int.some THEN Ok(from_int(int.val)) ELSE parse_float(s, parse_f64(s))
parse_token(s, t) ==
    IF t \in {<<"i", "n", "f">>, <<"i", "n", "f", "i", "n", "i", "t", "y">>,
              <<"+", "i", "n", "f">>,
              <<"+", "i", "n", "f", "i", "n", "i", "t", "y">>}
    THEN Ok(PositiveInfinity)
    ELSE IF t \in {<<"-", "i", "n", "f">>,
                   <<"-", "i", "n", "f", "i", "n", "i", "t", "y">>}
    THEN Ok(NegativeInfinity)
    ELSE IF t = <<"n", "a", "n">> THEN Ok(NaN)
    ELSE parse_int(s, parse_i64(s))
parse(s) == parse_token(s, to_lowercase(trim(s)))

(***************************************************************************)
(* The inputs the operations are exercised on.                             *)
(***************************************************************************)
\* the longest chain of arithmetic operations applied to one value
MaxOps == 1

i8_Inputs == {i8_MIN, ZInt(-1), ZInt(0), ZInt(5), i8_MAX}
i16_Inputs == {i16_MIN, ZInt(-129), ZInt(7), ZInt(300), i16_MAX}
i32_Inputs == {i32_MIN, ZInt(-32769), ZInt(128), ZInt(32768), i32_MAX}
\* the limits of i64, the values next beyond i32, 2^40 and 2^53 + 1
i64_Inputs == {i64_MIN, ZMk(TRUE, <<1, 0, 2>>), ZMk(TRUE, NPow2(40)), ZInt(2),
               ZNat(<<0, 0, 2>>), ZNat(NPow2(40)), ZNat(NAdd(NPow2(53), <<1>>)),
               i64_MAX}
u8_Inputs == {ZInt(0), ZInt(128), ZInt(255)}
u16_Inputs == {ZInt(1), ZInt(65535)}
\* 3 and 2^32 - 1
u32_Inputs == {ZInt(3), ZNat(<<32767, 32767, 3>>)}
\* 42, 2^63 - 1, 2^63 and 2^64 - 1
u64_Inputs == {ZInt(42), i64_MAX, ZNat(<<0, 0, 0, 0, 8>>),
               ZNat(<<32767, 32767, 32767, 32767, 15>>)}

\* 0.5, 1.5, -2.0, 2^-149 and the non-finite values
f32_Inputs == {FFin(FALSE, <<1>>, -1), FFin(FALSE, <<3>>, -1), FFin(TRUE, <<1>>, 1),
               FFin(FALSE, <<1>>, F32_MIN_STEP_EXP), FInf(FALSE), FNaN}
\* 0.0, -0.0, 3.5, 1 + 2^-52, 2^-70, 2^63, -2^100 and the non-finite values
f64_Inputs == {FZero(FALSE), FZero(TRUE), FFin(FALSE, <<7>>, -1),
               FFin(FALSE, NAdd(NPow2(52), <<1>>), -52),
               FFin(FALSE, <<1>>, -70), FFin(FALSE, <<1>>, 63),
               FFin(TRUE, <<1>>, 100), FInf(FALSE), FInf(TRUE), FNaN}

\* the texts handed to parse: each literal bare and with whitespace around it
Literals ==
    { <<"i", "n", "f">>, <<"I", "n", "f", "i", "n", "i", "t", "y">>,
      <<"+", "i", "n", "f">>, <<"+", "I", "N", "F", "I", "N", "I", "T", "Y">>,
      <<"-", "i", "n", "f">>, <<"-", "I", "n", "f", "i", "n", "i", "t", "y">>,
      <<"n", "a", "n">>, <<"N", "a", "N">>,
      <<"4", "2">>, <<"-", "7">>, <<"+", "3", "0", "0">>, <<"0">>,
      <<"9", "2", "2", "3", "3", "7", "2", "0", "3", "6", "8", "5", "4", "7", "7",
        "5", "8", "0", "7">>,
      <<"9", "2", "2", "3", "3", "7", "2", "0", "3", "6", "8", "5", "4", "7", "7",
        "5", "8", "0", "8">>,
      <<"3", ".", "5">>, <<"-", "0", ".", "1">>, <<"1", "e", "3">>,
      <<"1", "E", "3">>, <<".", "5">>, <<"5", ".">>, <<"2", ".", "5", "e", "-", "3">>,
      <<"+", "n", "a", "n">>, <<"-", "N", "A", "N">>,
      << >>, <<"-">>, <<".">>, <<"1", "e">>, <<"1", "2", "a">>, <<"1", " ", "2">>,
      <<"n", "o", "t", " ", "a", " ", "n", "u", "m", "b", "e", "r">> }

Padded(t) == {t, <<" ">> \o t, t \o <<" ">>, <<"\t", " ">> \o t \o <<"\n">>}
Texts == UNION {Padded(t) : t \in Literals}

\* the right-hand operands: every integer among them is held in the variant
\* from_int gives it; the float variants also hold the special values, since
\* the variants of the enum are public
Operands ==
    { Integer8(ZInt(-1)), Integer8(ZInt(0)), Integer8(ZInt(1)), Integer8(ZInt(2)),
      Integer8(ZInt(7)), Integer16(ZInt(300)),
      Integer64(ZMk(TRUE, NPow2(40))), Integer64(i64_MAX),
      Float32(FFin(FALSE, <<1>>, -1)), Float32(FZero(FALSE)),
      Float32(FInf(TRUE)), Float32(FNaN),
      Float64(FInf(FALSE)), Float64(FNaN),
      PositiveInfinity, NegativeInfinity, NaN }

(***************************************************************************)
(* The state: the last operation, its inputs and its outcome.  `out` is    *)
(* the Number the caller now holds, or the Result of parse, or Panic.      *)
(***************************************************************************)
VARIABLES op, arg, lhs, rhs, out, nops

vars == <<op, arg, lhs, rhs, out, nops>>

Nothing == [tag |-> "Nothing"]

Init ==
    /\ op = "new"
    /\ arg = Nothing
    /\ lhs = Nothing
    /\ rhs = Nothing
    /\ out = Nothing
    /\ nops = 0

\* a value is built first and operated on afterwards
Construct(name, input, value) ==
    /\ op' = name
    /\ arg' = input
    /\ lhs' = Nothing
    /\ rhs' = Nothing
    /\ out' = value
    /\ nops' = 0

From_i8 ==
    \E value \in i8_Inputs :
        /\ op = "new"
        /\ Construct("from_i8", value, Integer8(value))
From_i16 ==
    \E value \in i16_Inputs :
        /\ op = "new"
        /\ Construct("from_i16", value, from_int(value))
From_i32 ==
    \E value \in i32_Inputs :
        /\ op = "new"
        /\ Construct("from_i32", value, from_int(value))
From_i64 ==
    \E value \in i64_Inputs :
        /\ op = "new"
        /\ Construct("from_i64", value, from_int(value))
From_u8 ==
    \E value \in u8_Inputs :
        /\ op = "new"
        /\ Construct("from_u8", value, from_int(value))
From_u16 ==
    \E value \in u16_Inputs :
        /\ op = "new"
        /\ Construct("from_u16", value, from_int(value))
From_u32 ==
    \E value \in u32_Inputs :
        /\ op = "new"
        /\ Construct("from_u32", value, from_int(value))
From_u64 ==
    \E value \in u64_Inputs :
        /\ op = "new"
        /\ Construct("from_u64", value, from_int(as_signed(value, I64_BITS)))
From_f32 ==
    \E value \in f32_Inputs :
        /\ op = "new"
        /\ Construct("from_f32", value, from_float(f32_as_f64(value)))
From_f64 ==
    \E value \in f64_Inputs :
        /\ op = "new"
        /\ Construct("from_f64", value, from_float(value))

from_int_call ==
    \E value \in i8_Inputs \cup i16_Inputs \cup i32_Inputs \cup i64_Inputs :
        /\ op = "new"
        /\ Construct("from_int", value, from_int(value))

Parse ==
    \E s \in Texts :
        /\ op = "new"
        /\ Construct("parse", s, parse(s))

\* the Number the caller holds, if any: a parse result is unwrapped
Held == IF out.tag = "Ok" THEN out.v ELSE out

\* an operator is applied to a Number, MaxOps times at most in a row
Ready == IsNumber(Held) /\ nops < MaxOps

Apply(name, r, value) ==
    /\ op' = name
    /\ arg' = Nothing
    /\ lhs' = Held
    /\ rhs' = r
    /\ out' = value
    /\ nops' = nops + 1

Add ==
    \E r \in Operands :
        /\ Ready
        /\ Apply("add", r, add(Held, r))
Sub ==
    \E r \in Operands :
        /\ Ready
        /\ Apply("sub", r, sub(Held, r))
Mul ==
    \E r \in Operands :
        /\ Ready
        /\ Apply("mul", r, mul(Held, r))
Div ==
    \E r \in Operands :
        /\ Ready
        /\ Apply("div", r, div(Held, r))
RemAssign ==
    \E r \in Operands :
        /\ Ready
        /\ Apply("rem_assign", r, rem_assign(Held, r))

Next ==
    \/ From_i8 \/ From_i16 \/ From_i32 \/ From_i64
    \/ From_u8 \/ From_u16 \/ From_u32 \/ From_u64
    \/ From_f32 \/ From_f64
    \/ from_int_call
    \/ Parse
    \/ Add \/ Sub \/ Mul \/ Div \/ RemAssign

Spec == Init /\ [][Next]_vars

(***************************************************************************)
(* The properties claimed of the library, stated over the last operation.  *)
(* What a result should be is worked out here from the exact integers,     *)
(* never by the operation under test.                                      *)
(***************************************************************************)
ArithmeticOps == {"add", "sub", "mul", "div", "rem_assign"}
RingOps == {"add", "sub", "mul"}

\* z lies in the range of the signed type of the given width
InSignedRange(z, bits) ==
    IF z.neg THEN NLe(z.mag, NPow2(bits - 1)) ELSE NLt(z.mag, NPow2(bits - 1))

WidthOf(tag) ==
    CASE tag = "Integer8" -> I8_BITS
      [] tag = "Integer16" -> I16_BITS
      [] tag = "Integer32" -> I32_BITS
      [] tag = "Integer64" -> I64_BITS

\* x is the integer variant holding z, and no narrower variant can hold z
IsNarrowest(x, z) ==
    /\ x.tag \in IntegerTags
    /\ x.v = z
    /\ InSignedRange(z, WidthOf(x.tag))
    /\ \A t \in IntegerTags :
           InSignedRange(z, WidthOf(t)) => WidthOf(x.tag) <= WidthOf(t)

\* the exact sum, difference or product of two integers
Exact(name, a, b) ==
    CASE name = "add" -> ZAdd(a, b)
      [] name = "sub" -> ZSub(a, b)
      [] name = "mul" -> ZMul(a, b)

\* the last operation took two integer variants
IntegerPair == IsInteger(lhs) /\ IsInteger(rhs)

\* x is the NaN variant or a float variant whose payload is NaN
HoldsNaN(x) == x.tag = "NaN" \/ (x.tag \in FloatTags /\ x.v.cls = "nan")

\* the sign of an infinite Number
IsNegative(x) == IF x.tag \in FloatTags THEN x.v.neg ELSE x.tag = "NegativeInfinity"

\* x denotes the integer z exactly, as an integer or as a float
Denotes(x, z) ==
    \/ x.tag \in IntegerTags /\ x.v = z
    \/ /\ x.tag \in FloatTags
       /\ x.v.cls = "fin"
       /\ x.v.e >= 0
       /\ ZMk(x.v.neg, NShl(x.v.m, x.v.e)) = z

\* C1: each of add, sub, mul, div and rem_assign completes with a Number for
\* every pair of operands; none of them aborts.
ArithmeticNeverFails == op \in ArithmeticOps => IsNumber(out)

\* the division of i64::MIN by -1 aborts
DivMinByMinusOneAborts ==
    /\ op = "div"
    /\ lhs = Integer64(i64_MIN)
    /\ rhs = Integer8(ZInt(-1))
    /\ out = Panic

\* C2: for every 64-bit signed integer m, from_int(m) is the narrowest of
\* Integer8, Integer16, Integer32 and Integer64 whose range contains m, and its
\* payload is m.
FromIntNarrowest == op = "from_int" => IsNarrowest(out, arg)

\* from_int on the first value beyond the range of i8
FromIntBeyondI8 ==
    /\ op = "from_int"
    /\ arg = ZInt(128)
    /\ out = Integer16(ZInt(128))

\* C3: when the exact sum, difference or product of two integer variants lies
\* outside the range of i64, add, sub and mul give a float variant, never an
\* integer holding the wrapped result: a finite float of the sign of the exact
\* result and of magnitude at least 2^63.
OverflowPromotes ==
    (op \in RingOps /\ IntegerPair
        /\ ~InSignedRange(Exact(op, lhs.v, rhs.v), I64_BITS))
    => /\ out.tag \in FloatTags
       /\ out.v.cls = "fin"
       /\ out.v.neg = Exact(op, lhs.v, rhs.v).neg
       /\ NBitLen(out.v.m) + out.v.e >= I64_BITS

\* two Integer64 whose sum is beyond i64::MAX
Integer64SumOverflows ==
    /\ op = "add"
    /\ BothTag(lhs, rhs, "Integer64")
    /\ ~InSignedRange(ZAdd(lhs.v, rhs.v), I64_BITS)
    /\ out.tag = "Float64"

\* C4: the conversion from u64 preserves the value: Number::from(v) denotes
\* exactly v for every v below 2^64, and for v above i64::MAX it is not an
\* integer variant holding another value.
FromU64KeepsValue == op = "from_u64" => Denotes(out, arg)

\* u64::MAX converted to the integer -1
FromU64MaxIsMinusOne ==
    /\ op = "from_u64"
    /\ arg = ZNat(<<32767, 32767, 32767, 32767, 15>>)
    /\ out = Integer8(ZInt(-1))

\* C5: for integer variants a and b, b nonzero, a / b is the narrowest integer
\* variant holding the exact quotient when b divides a, and a float variant
\* when it does not.
IntegerDivision ==
    (op = "div" /\ IntegerPair /\ ~ZIsZero(rhs.v))
    => IF ZIsZero(ZRem(lhs.v, rhs.v))
       THEN IsNarrowest(out, ZQuot(lhs.v, rhs.v))
       ELSE out.tag \in FloatTags /\ out.v.cls = "fin"

\* an exact division whose quotient, 2^63, no integer variant holds
ExactQuotientBeyondI64 ==
    /\ op = "div"
    /\ IntegerPair
    /\ ~ZIsZero(rhs.v)
    /\ ZIsZero(ZRem(lhs.v, rhs.v))
    /\ ~InSignedRange(ZQuot(lhs.v, rhs.v), I64_BITS)
    /\ out = Panic

\* C6: the sum of two infinite operands of opposite signs is NaN, and so is
\* the difference of two infinite operands of one sign, whether an infinity is
\* held as PositiveInfinity or NegativeInfinity or as the payload of Float32 or
\* Float64.
InfinitiesCancelToNaN ==
    /\ (op = "add" /\ is_infinite(lhs) /\ is_infinite(rhs)
           /\ IsNegative(lhs) # IsNegative(rhs))
       => HoldsNaN(out)
    /\ (op = "sub" /\ is_infinite(lhs) /\ is_infinite(rhs)
           /\ IsNegative(lhs) = IsNegative(rhs))
       => HoldsNaN(out)

\* an infinite Float64 plus NegativeInfinity gives NegativeInfinity
FloatInfinityPlusNegativeInfinity ==
    /\ op = "add"
    /\ lhs = Float64(FInf(FALSE))
    /\ rhs = NegativeInfinity
    /\ out = NegativeInfinity

\* C7: for each of add, sub, mul, div and rem_assign, when either operand is
\* NaN, as the NaN variant or as a NaN payload of Float32 or Float64, the result
\* is exactly the NaN variant, whatever the other operand is.
NaNDominates ==
    (op \in ArithmeticOps /\ (HoldsNaN(lhs) \/ HoldsNaN(rhs))) => out = NaN

\* a NaN payload divided by the integer zero
NaNPayloadByZero ==
    /\ op = "div"
    /\ lhs = Float64(FNaN)
    /\ rhs = Integer8(ZInt(0))
    /\ out = NaN

\* C8: parse ignores whitespace around an accepted text: with whitespace added
\* before or after it, the text still parses, and to the same Number; an
\* integer literal, padded or not, parses to from_int of its value.
ParseIgnoresPadding ==
    (op = "parse" /\ out.tag = "Ok") => \A s \in Padded(arg) : parse(s) = out

\* an integer literal after a space is rejected
PaddedIntegerRejected ==
    /\ op = "parse"
    /\ arg = <<" ", "4", "2">>
    /\ out.tag = "Err"

\* C9: add, sub and mul of integer variants whose exact result fits i64 give
\* from_int of that result: the narrowest variant for the value, so that two
\* Integer64 whose sum is 0 give Integer8(0).
ArithmeticKeepsNarrowest ==
    (op \in RingOps /\ IntegerPair
        /\ InSignedRange(Exact(op, lhs.v, rhs.v), I64_BITS))
    => IsNarrowest(out, Exact(op, lhs.v, rhs.v))

\* two Integer64 whose sum is 0 give Integer64(0)
Integer64SumZeroStaysWide ==
    /\ op = "add"
    /\ BothTag(lhs, rhs, "Integer64")
    /\ ZIsZero(ZAdd(lhs.v, rhs.v))
    /\ out = Integer64(ZInt(0))

\* C10: for integer variants a and b of any widths, b nonzero, a %= b leaves
\* from_int(r) in a, r the exact remainder of the truncated division of a by b.
RemainderIsExactInteger ==
    (op = "rem_assign" /\ IntegerPair /\ ~ZIsZero(rhs.v))
    => IsNarrowest(out, ZRem(lhs.v, rhs.v))

\* Integer16(300) %= Integer8(7) leaves a float
MixedWidthRemainderIsFloat ==
    /\ op = "rem_assign"
    /\ lhs = Integer16(ZInt(300))
    /\ rhs = Integer8(ZInt(7))
    /\ out = Float32(FFin(FALSE, <<3>>, 1))
====
